---- MODULE Spec2Model ----
(***************************************************************************)
(* Observer / Observable of src/newIndex.ts (and its typed twin,           *)
(* src/unnamed/part_000): one Observable and a fixed set of subscription   *)
(* slots, each with its own Observer.  Observer methods are operators on   *)
(* an observer record.  Besides the three fields of the class the record   *)
(* carries `out`, the sequence of callbacks the observer has invoked       *)
(* (handlers and teardown, in order, each tagged with the number of the    *)
(* method call that invoked it), `ncalls`, the number of method calls the  *)
(* observer has received, and `threw`, set when a callback that is absent  *)
(* would have been called (a TypeError in the program).                    *)
(***************************************************************************)
EXTENDS Integers, Sequences, FiniteSets, TLC

\* ---- bounds ----
MaxLen == 2        \* longest array given to Observable.from
MaxSync == 1       \* most signals a hand-written producer emits before it returns
MaxCalls == 2      \* most calls made after subscribe returned, all subscriptions together

Subs == {"s1", "s2"}
Values == {"a", "b"}
Errors == {"x"}
NoArg == "-"
HandlerNames == {"next", "error", "complete"}

VARIABLES
  observable,   \* the Observable: its producer (_subscribe), fixed at construction
  obs,          \* obs[s]: the Observer of subscription s, or NoObserver before subscribe
  calls         \* calls[s]: history of the Observer method calls made on obs[s]
vars == <<observable, obs, calls>>

\* ---- data ----
SeqsUpTo(S, n) == UNION {[1..k -> S] : k \in 0..n}

NoObserver == [created |-> FALSE]

\* A signal a producer sends, or a call the holder of the handle makes.
Signal(op, arg) == [op |-> op, arg |-> arg]
Signals ==
  {Signal("next", v) : v \in Values} \cup {Signal("error", e) : e \in Errors}
    \cup {Signal("complete", NoArg)}

\* A callback the observer invoked, during its at-th method call.
Event(ev, arg, at) == [ev |-> ev, arg |-> arg, at |-> at]

\* Entry of the call history; sync = made while the producer was running,
\* nested = made from inside a handler that the call before it is running.
Call(sig, sync) == [op |-> sig.op, arg |-> sig.arg, sync |-> sync, nested |-> FALSE]
NestedCall(sig) == [op |-> sig.op, arg |-> sig.arg, sync |-> FALSE, nested |-> TRUE]

\* ---- Observer ----
\* constructor(handlers)
NewObserver(handlers) ==
  [created |-> TRUE, handlers |-> handlers, isUnsubscribed |-> FALSE,
   _unsubscribe |-> FALSE, out |-> <<>>, ncalls |-> 0, threw |-> FALSE]

\* A handler call whose invocation is recorded ahead of the earlier ones.
InvokeHandler_Prepend(o, name, arg) ==
  IF name \in o.handlers
    THEN [o EXCEPT !.out = <<Event(name, arg, o.ncalls)>> \o @]
    ELSE [o EXCEPT !.threw = TRUE]

\* this.handlers.<name>(arg): calling an absent property throws.
InvokeHandler(o, name, arg) ==
  IF name \in o.handlers
    THEN [o EXCEPT !.out = Append(@, Event(name, arg, o.ncalls))]
    ELSE [o EXCEPT !.threw = TRUE]

\* this._unsubscribe(): calling an unset slot throws.
InvokeTeardown(o) ==
  IF o._unsubscribe
    THEN [o EXCEPT !.out = Append(@, Event("teardown", NoArg, o.ncalls))]
    ELSE [o EXCEPT !.threw = TRUE]

\* unsubscribe() that calls the teardown but does not set the flag.
ObsUnsubscribe_FlagNotSet(o) ==
  IF o._unsubscribe THEN InvokeTeardown(o) ELSE o

\* unsubscribe() that flips the flag instead of setting it.
ObsUnsubscribe_Toggle(o) ==
  LET o1 == [o EXCEPT !.isUnsubscribed = ~@]
  IN  IF o1._unsubscribe THEN InvokeTeardown(o1) ELSE o1

\* unsubscribe() that calls the teardown only when it is the call that sets
\* the flag.
ObsUnsubscribe_Idempotent(o) ==
  LET o1 == [o EXCEPT !.isUnsubscribed = TRUE]
  IN  IF ~o.isUnsubscribed /\ o1._unsubscribe THEN InvokeTeardown(o1) ELSE o1

\* unsubscribe(): sets the flag, then calls the teardown whenever one is set.
ObsUnsubscribe(o) ==
  LET o1 == [o EXCEPT !.isUnsubscribed = TRUE]
  IN  IF o1._unsubscribe THEN InvokeTeardown(o1) ELSE o1

\* next(value) that ends the subscription after delivering.
ObsNext_ThenUnsubscribe(o, v) ==
  IF "next" \in o.handlers /\ ~o.isUnsubscribed
    THEN ObsUnsubscribe(InvokeHandler(o, "next", v))
    ELSE o

\* next(value) without the test of isUnsubscribed.
ObsNext_NoFlagCheck(o, v) ==
  IF "next" \in o.handlers THEN InvokeHandler(o, "next", v) ELSE o

\* next(value)
ObsNext(o, v) ==
  IF "next" \in o.handlers /\ ~o.isUnsubscribed
    THEN InvokeHandler(o, "next", v)
    ELSE o

\* error(error) that unsubscribes before it calls the handler.
ObsError_UnsubscribeFirst(o, e) ==
  IF ~o.isUnsubscribed
    THEN LET u == ObsUnsubscribe(o)
         IN  IF "error" \in u.handlers THEN InvokeHandler(u, "error", e) ELSE u
    ELSE o

\* error(error) with the unsubscribe inside the handler test.
ObsError_UnsubscribeWithHandlerOnly(o, e) ==
  IF ~o.isUnsubscribed /\ "error" \in o.handlers
    THEN ObsUnsubscribe(InvokeHandler(o, "error", e))
    ELSE o

\* error(error)
ObsError(o, e) ==
  IF ~o.isUnsubscribed
    THEN ObsUnsubscribe(IF "error" \in o.handlers
                          THEN InvokeHandler(o, "error", e) ELSE o)
    ELSE o

\* complete() that invokes the handler and does not unsubscribe.
ObsComplete_NoUnsubscribe(o) ==
  IF ~o.isUnsubscribed /\ "complete" \in o.handlers
    THEN InvokeHandler(o, "complete", NoArg)
    ELSE o

\* complete() without the test of isUnsubscribed.
ObsComplete_NoFlagCheck(o) ==
  ObsUnsubscribe(IF "complete" \in o.handlers
                   THEN InvokeHandler(o, "complete", NoArg) ELSE o)

\* complete()
ObsComplete(o) ==
  IF ~o.isUnsubscribed
    THEN ObsUnsubscribe(IF "complete" \in o.handlers
                          THEN InvokeHandler(o, "complete", NoArg) ELSE o)
    ELSE o

\* One method call on the observer from outside the class: the producer's
\* observer.next/error/complete or the handle's observer.unsubscribe().
Deliver(o, sig) ==
  LET o1 == [o EXCEPT !.ncalls = @ + 1]
  IN  CASE sig.op = "next" -> ObsNext(o1, sig.arg)
        [] sig.op = "error" -> ObsError(o1, sig.arg)
        [] sig.op = "complete" -> ObsComplete(o1)
        [] sig.op = "unsubscribe" -> ObsUnsubscribe(o1)

\* error(error) or complete() whose handler, while it runs, makes the call
\* `inner` on the same observer (the consumer's handler calling the handle's
\* unsubscribe(), or making the producer signal again).  The handler runs
\* before this.unsubscribe(), so `inner` finds the flag as error()/complete()
\* found it; what the outer call does after the handler returned is tagged
\* with the outer call's number.
TerminalReentrant(o, name, arg, inner) ==
  IF ~o.isUnsubscribed
    THEN IF name \in o.handlers
           THEN LET k == o.ncalls
                    h == Deliver(InvokeHandler(o, name, arg), inner)
                    u == ObsUnsubscribe([h EXCEPT !.ncalls = k])
                IN  [u EXCEPT !.ncalls = h.ncalls]
           ELSE ObsUnsubscribe(o)
    ELSE o

RECURSIVE DeliverAll(_, _)
DeliverAll(o, sigs) ==
  IF sigs = <<>> THEN o ELSE DeliverAll(Deliver(o, Head(sigs)), Tail(sigs))

\* ---- Observable ----
\* from(values) that completes before it emits.
FromSignals_CompleteFirst(values) ==
  <<Signal("complete", NoArg)>> \o [i \in 1..Len(values) |-> Signal("next", values[i])]

\* Observable.from(values): the producer sends next for every element, then
\* complete, and returns a teardown.
FromSignals(values) ==
  [i \in 1..Len(values) |-> Signal("next", values[i])] \o <<Signal("complete", NoArg)>>

From(values) ==
  [kind |-> "from", values |-> values, sync |-> FromSignals(values), teardown |-> TRUE]

\* new Observable(producer) with a hand-written producer: it sends `sync`
\* while it runs, returns a teardown or nothing, and keeps the observer for
\* later signals.
Custom(sync, teardown) ==
  [kind |-> "custom", values |-> <<>>, sync |-> sync, teardown |-> teardown]

\* The demonstration's erroringObservable: next, error, next, returns nothing.
ErroringObservable ==
  Custom(<<Signal("next", "a"), Signal("error", "x"), Signal("next", "b")>>, FALSE)

Observables ==
  {From(vs) : vs \in SeqsUpTo(Values, MaxLen)}
    \cup {Custom(sy, td) : sy \in SeqsUpTo(Signals, MaxSync), td \in BOOLEAN}
    \cup {ErroringObservable}

\* subscribe(handlers) that registers the teardown before the producer ran.
SubscribeResult_RegisterFirst(p, handlers) ==
  DeliverAll([NewObserver(handlers) EXCEPT !._unsubscribe = p.teardown], p.sync)

\* this._subscribe(observer): the observer after the producer ran.
RunProducer(p, o) == DeliverAll(o, p.sync)

\* subscribe(handlers): new Observer, run the producer, then register the
\* teardown the producer returned.
SubscribeResult(p, handlers) ==
  LET o == RunProducer(p, NewObserver(handlers))
  IN  IF p.teardown THEN [o EXCEPT !._unsubscribe = TRUE] ELSE o

\* ---- state machine ----
AsyncCount(s) == Cardinality({i \in DOMAIN calls[s] : ~calls[s][i].sync})
TotalAsync == AsyncCount("s1") + AsyncCount("s2")

Init ==
  /\ observable \in Observables
  /\ obs = [s \in Subs |-> NoObserver]
  /\ calls = [s \in Subs |-> <<>>]

Subscribe(s, handlers) ==
  /\ ~obs[s].created
  /\ obs' = [obs EXCEPT ![s] = SubscribeResult(observable, handlers)]
  /\ calls' = [calls EXCEPT ![s] =
                 [i \in 1..Len(observable.sync) |-> Call(observable.sync[i], TRUE)]]
  /\ UNCHANGED observable

\* A call on obs[s] after subscribe returned.
AsyncCall(s, sig) ==
  /\ obs[s].created
  /\ TotalAsync < MaxCalls
  /\ obs' = [obs EXCEPT ![s] = Deliver(@, sig)]
  /\ calls' = [calls EXCEPT ![s] = Append(@, Call(sig, FALSE))]
  /\ UNCHANGED observable

\* The producer kept the observer and signals later (timer, I/O callback).
ProducerNext(s, v) ==
  /\ observable.kind = "custom"
  /\ AsyncCall(s, Signal("next", v))

ProducerError(s, e) ==
  /\ observable.kind = "custom"
  /\ AsyncCall(s, Signal("error", e))

ProducerComplete(s) ==
  /\ observable.kind = "custom"
  /\ AsyncCall(s, Signal("complete", NoArg))

\* unsubscribe() on a handle whose flag is shared by every subscription of the
\* Observable.
Unsubscribe_SharedFlag(s) ==
  /\ obs[s].created
  /\ TotalAsync < MaxCalls
  /\ obs' = [t \in Subs |->
               IF ~obs[t].created THEN obs[t]
               ELSE IF t = s THEN Deliver(obs[t], Signal("unsubscribe", NoArg))
               ELSE [obs[t] EXCEPT !.isUnsubscribed = TRUE]]
  /\ calls' = [calls EXCEPT ![s] = Append(@, Call(Signal("unsubscribe", NoArg), FALSE))]
  /\ UNCHANGED observable

\* subscription.unsubscribe() on the handle subscribe returned.
Unsubscribe(s) ==
  /\ obs[s].created
  /\ AsyncCall(s, Signal("unsubscribe", NoArg))

Next ==
  \/ \E s \in Subs, h \in SUBSET HandlerNames : Subscribe(s, h)
  \/ \E s \in Subs, v \in Values : ProducerNext(s, v)
  \/ \E s \in Subs, e \in Errors : ProducerError(s, e)
  \/ \E s \in Subs : ProducerComplete(s)
  \/ \E s \in Subs : Unsubscribe(s)

Spec == Init /\ [][Next]_vars

\* ---- calls made from inside a running terminal handler ----
InnerSignals == Signals \cup {Signal("unsubscribe", NoArg)}

\* A terminal call after subscribe returned whose handler runs (the observer
\* is Active and has the handler) and makes the call `inner` while it runs.
ReentrantCall(s, sig, inner) ==
  /\ observable.kind = "custom"
  /\ obs[s].created
  /\ ~obs[s].isUnsubscribed
  /\ sig.op \in obs[s].handlers
  /\ TotalAsync + 2 <= MaxCalls
  /\ obs' = [obs EXCEPT ![s] =
               TerminalReentrant([@ EXCEPT !.ncalls = @ + 1], sig.op, sig.arg, inner)]
  /\ calls' = [calls EXCEPT ![s] = @ \o <<Call(sig, FALSE), NestedCall(inner)>>]
  /\ UNCHANGED observable

ReentrantError(s, e, inner) ==
  /\ obs[s].created
  /\ ReentrantCall(s, Signal("error", e), inner)

ReentrantComplete(s, inner) ==
  /\ obs[s].created
  /\ ReentrantCall(s, Signal("complete", NoArg), inner)

NextReentrant ==
  \/ Next
  \/ \E s \in Subs, e \in Errors, inner \in InnerSignals : ReentrantError(s, e, inner)
  \/ \E s \in Subs, inner \in InnerSignals : ReentrantComplete(s, inner)

SpecReentrant == Init /\ [][NextReentrant]_vars

\* ---- vocabulary of the properties ----
Created == {s \in Subs : obs[s].created}
TerminalOps == {"error", "complete", "unsubscribe"}

\* Positions of the calls on obs[s] with an operation in ops.
CallsOf(s, ops) == {i \in DOMAIN calls[s] : calls[s][i].op \in ops}

\* The call at position i found the observer Active: no error, complete or
\* unsubscribe call came before it.
ActiveAt(s, i) == \A j \in CallsOf(s, TerminalOps) : j >= i

\* Positions in obs[s].out of the callbacks named in evs.
EventsOf(s, evs) == {i \in DOMAIN obs[s].out : obs[s].out[i].ev \in evs}
Teardowns(s) == Cardinality(EventsOf(s, {"teardown"}))

\* The handler invocations of obs[s], in order, without the call tags.
Strip(e) == <<e.ev, e.arg>>
IsHandlerEvent(e) == e.ev \in HandlerNames
Delivered(s) ==
  LET hs == SelectSeq(obs[s].out, IsHandlerEvent)
  IN  [i \in DOMAIN hs |-> Strip(hs[i])]

\* C1: P1, idempotent unsubscribe. When the producer returned a teardown and
\* the only calls made after subscribe are unsubscribe() calls on the handle
\* (one or more), the teardown has been invoked at most once and nothing threw.
C1_IdempotentUnsubscribe ==
  \A s \in Created :
    ( /\ observable.teardown
      /\ CallsOf(s, {"unsubscribe"}) # {}
      /\ \A i \in DOMAIN calls[s] : ~calls[s][i].sync => calls[s][i].op = "unsubscribe" )
    => Teardowns(s) <= 1 /\ ~obs[s].threw

\* C2: P2, post-terminal silence. No callback (handler or teardown) is ever
\* invoked by a next, error or complete call that was made after an earlier
\* error, complete or unsubscribe call on the same observer.
C2_PostTerminalSilence ==
  \A s \in Created :
    \A i \in DOMAIN obs[s].out :
      LET at == obs[s].out[i].at
      IN  calls[s][at].op \in HandlerNames => ActiveAt(s, at)

\* A next call made after an error call was dropped: the live next and the
\* error were delivered, the late next was not.
C2_Witness ==
  \E s \in Created :
    /\ obs[s].handlers = HandlerNames
    /\ Len(calls[s]) = 3
    /\ calls[s][1].op = "next" /\ calls[s][2].op = "error" /\ calls[s][3].op = "next"
    /\ Delivered(s) = <<<<"next", calls[s][1].arg>>, <<"error", calls[s][2].arg>>>>

\* C3: P3, mutual exclusivity of terminal signals. Per subscription at most
\* one onError or onComplete invocation ever happens, and it belongs to the
\* first error or complete call made on the observer.
C3_TerminalExclusive ==
  \A s \in Created :
    /\ Cardinality(EventsOf(s, {"error", "complete"})) <= 1
    /\ \A i \in EventsOf(s, {"error", "complete"}) :
         /\ \A j \in CallsOf(s, {"error", "complete"}) : j >= obs[s].out[i].at
         /\ calls[s][obs[s].out[i].at].op = obs[s].out[i].ev

\* error and then complete were sent to an observer that has both handlers;
\* only onError ran.
C3_Witness ==
  \E s \in Created :
    /\ {"error", "complete"} \subseteq obs[s].handlers
    /\ [i \in DOMAIN calls[s] |-> calls[s][i].op] = <<"error", "complete">>
    /\ Delivered(s) = <<<<"error", "x">>>>

\* What from(values) is to deliver: every element in order, then complete.
FromDelivery(values) ==
  [i \in 1..(Len(values) + 1) |->
     IF i <= Len(values) THEN <<"next", values[i]>> ELSE <<"complete", NoArg>>]

\* C4: P4, from emits in order then completes. A subscription to from(values)
\* that has a next and a complete handler has been delivered exactly next for
\* each element of values in order, then one complete, and no error.
C4_FromInOrder ==
  \A s \in Created :
    (observable.kind = "from" /\ {"next", "complete"} \subseteq obs[s].handlers)
      => Delivered(s) = FromDelivery(observable.values)

\* from of two different elements, subscribed with {next, complete}.
C4_Witness ==
  \E s \in Created :
    /\ observable.kind = "from"
    /\ observable.values = <<"b", "a">>
    /\ obs[s].handlers = {"next", "complete"}
    /\ Delivered(s) = <<<<"next", "b">>, <<"next", "a">>, <<"complete", NoArg>>>>

\* C5: teardown on terminal signal. When the producer returns a teardown,
\* every error or complete call that found the observer Active has invoked the
\* teardown exactly once, after the handler it invoked; so a subscription to
\* from(...) has its teardown invoked once when subscribe returns.
C5_TeardownOnTerminal ==
  \A s \in Created :
    observable.teardown =>
      \A k \in CallsOf(s, {"error", "complete"}) :
        ActiveAt(s, k) =>
          /\ Cardinality({i \in EventsOf(s, {"teardown"}) : obs[s].out[i].at = k}) = 1
          /\ \A i \in EventsOf(s, {"teardown"}), j \in EventsOf(s, {"error", "complete"}) :
               (obs[s].out[i].at = k /\ obs[s].out[j].at = k) => j < i

\* The signals of sigs that reach an Active observer: all up to and including
\* the first error or complete.
LivePrefix(sigs) ==
  LET ends == {i \in DOMAIN sigs : sigs[i].op \in {"error", "complete"}}
  IN  IF ends = {} THEN sigs
      ELSE SubSeq(sigs, 1, CHOOSE i \in ends : \A j \in ends : i <= j)

\* What obs[s] was delivered while the producer ran inside subscribe.
SyncDelivered(s) ==
  LET hs == SelectSeq(obs[s].out,
                      LAMBDA e : e.ev \in HandlerNames /\ e.at <= Len(observable.sync))
  IN  [i \in DOMAIN hs |-> Strip(hs[i])]

\* C6: P6, independence of subscriptions. Every subscription had the producer
\* run against its own observer and, with all three handlers, was delivered
\* the producer's whole emission, whatever happened to the other subscription;
\* two subscriptions with the same handlers were delivered the same; an
\* observer changes only in a step that calls a method on it; and the
\* Observable never changes.
C6_Independent ==
  /\ [](\A s \in Created :
          /\ Len(calls[s]) >= Len(observable.sync)
          /\ \A i \in DOMAIN observable.sync :
               calls[s][i] = Call(observable.sync[i], TRUE)
          /\ obs[s].handlers = HandlerNames =>
               SyncDelivered(s) =
                 [i \in DOMAIN LivePrefix(observable.sync) |->
                    <<observable.sync[i].op, observable.sync[i].arg>>]
          /\ \A t \in Created :
               obs[t].handlers = obs[s].handlers => SyncDelivered(t) = SyncDelivered(s))
  /\ [][ /\ observable' = observable
         /\ \A t \in Subs :
              (obs[t].created /\ calls'[t] = calls[t]) => obs'[t] = obs[t] ]_vars

\* One subscription was terminated by error() after subscribe returned; the
\* other is still Active and was delivered a next sent after subscribe.
C6_Witness ==
  \E s, t \in Created :
    /\ s # t
    /\ calls[s] # <<>> /\ calls[s][Len(calls[s])] = Call(Signal("error", "x"), FALSE)
    /\ obs[s].isUnsubscribed
    /\ ~obs[t].isUnsubscribed
    /\ calls[t] # <<>> /\ calls[t][Len(calls[t])].op = "next" /\ ~calls[t][Len(calls[t])].sync
    /\ \E i \in DOMAIN obs[t].out : obs[t].out[i].at = Len(calls[t])

\* C7: silent cancellation. No handler is ever invoked by an unsubscribe()
\* call; and when the first call made on an observer is unsubscribe() (right
\* after subscribe returned, the producer having emitted nothing yet), no
\* handler of that subscription is invoked by any later call.
C7_SilentCancellation ==
  \A s \in Created :
    /\ \A i \in EventsOf(s, HandlerNames) : calls[s][obs[s].out[i].at].op # "unsubscribe"
    /\ (calls[s] # <<>> /\ calls[s][1].op = "unsubscribe") => EventsOf(s, HandlerNames) = {}

\* unsubscribe() right after subscribe, then a signal whose handler is
\* present: nothing was delivered.
C7_Witness ==
  \E s \in Created :
    /\ Len(calls[s]) = 2
    /\ calls[s][1].op = "unsubscribe"
    /\ calls[s][2].op \in obs[s].handlers
    /\ Delivered(s) = <<>>

\* The teardown invocations of obs[s], in order.
TeardownEvents(s) == SelectSeq(obs[s].out, LAMBDA e : e.ev = "teardown")

\* C8: P5, missing handler tolerance. With the empty handler set nothing
\* throws and no handler is invoked, and the transitions are those of an
\* observer that has handlers: the observer is unsubscribed exactly when an
\* error, complete or unsubscribe call was made, an error or complete call
\* that found the observer Active with a teardown registered invoked it, next
\* invoked no teardown, and a subscription that received the same calls has
\* the same flag and the same teardown invocations.
C8_MissingHandlers ==
  \A s \in Created :
    obs[s].handlers = {} =>
      /\ ~obs[s].threw
      /\ EventsOf(s, HandlerNames) = {}
      /\ obs[s].isUnsubscribed <=> (CallsOf(s, TerminalOps) # {})
      /\ \A k \in CallsOf(s, {"error", "complete"}) :
           (ActiveAt(s, k) /\ ~calls[s][k].sync /\ observable.teardown)
             => \E i \in EventsOf(s, {"teardown"}) : obs[s].out[i].at = k
      /\ \A i \in EventsOf(s, {"teardown"}) : calls[s][obs[s].out[i].at].op # "next"
      /\ \A t \in Created :
           calls[t] = calls[s] =>
             /\ obs[t].isUnsubscribed = obs[s].isUnsubscribed
             /\ obs[t]._unsubscribe = obs[s]._unsubscribe
             /\ TeardownEvents(t) = TeardownEvents(s)

\* An observer without handlers received next and then, after subscribe
\* returned, error: it is unsubscribed and its teardown ran; a sibling with
\* all handlers received the same calls.
C8_Witness ==
  \E s, t \in Created :
    /\ obs[s].handlers = {} /\ obs[t].handlers = HandlerNames
    /\ calls[s] = calls[t]
    /\ [i \in DOMAIN calls[s] |-> calls[s][i].op] = <<"next", "error">>
    /\ obs[s].isUnsubscribed
    /\ Teardowns(s) = 1
    /\ Delivered(s) = <<>>

\* C9: teardown runs at most once per subscription, over every sequence of
\* next/error/complete calls by the producer and unsubscribe() calls on the
\* handle.
C9_TeardownAtMostOnce ==
  \A s \in Created : Teardowns(s) <= 1

\* C10: unsubscribe() invokes the teardown only on the call that first sets
\* isUnsubscribed: no teardown is invoked by an unsubscribe() call made after
\* an earlier error, complete or unsubscribe call.
C10_TeardownOnFirstTransitionOnly ==
  \A s \in Created :
    \A i \in EventsOf(s, {"teardown"}) :
      calls[s][obs[s].out[i].at].op = "unsubscribe" => ActiveAt(s, obs[s].out[i].at)

\* C11: Terminated is absorbing. isUnsubscribed is false at construction, so a
\* subscription on which no error, complete or unsubscribe call was made is
\* not unsubscribed; and once isUnsubscribed is true it is true in every
\* later state, whatever is called.
C11_TerminatedAbsorbing ==
  /\ [](\A s \in Created : CallsOf(s, TerminalOps) = {} => ~obs[s].isUnsubscribed)
  /\ [][\A s \in Created : obs[s].isUnsubscribed => obs'[s].isUnsubscribed]_vars

\* An unsubscribed observer received a next, an error, a complete or an
\* unsubscribe call after it was terminated, and is still unsubscribed.
C11_Witness ==
  \E s \in Created :
    /\ obs[s].isUnsubscribed
    /\ \E i, j \in DOMAIN calls[s] :
         i < j /\ calls[s][i].op \in TerminalOps /\ calls[s][j].op = "unsubscribe"

\* C12: re-entrant calls during a terminal handler are absorbed. When the
\* only calls made after subscribe returned are one error() or complete() and
\* the unsubscribe(), error() or complete() made while its handler was
\* running, at most one terminal handler and at most one teardown have been
\* invoked.
C12_ReentrantAbsorbed ==
  \A s \in Created :
    ( /\ AsyncCount(s) = 2
      /\ calls[s][Len(calls[s])].nested
      /\ calls[s][Len(calls[s])].op \in TerminalOps )
    => /\ Cardinality(EventsOf(s, {"error", "complete"})) <= 1
       /\ Teardowns(s) <= 1

\* C13: from(vs) is over when subscribe returns. In every state of a
\* subscription to from(vs), so also after unsubscribe() calls on the handle,
\* the observer is unsubscribed, what was delivered is next for each element
\* and complete (those that have a handler), and every handler invocation
\* belongs to a call the producer made inside subscribe.
C13_FromDoneAtReturn ==
  \A s \in Created :
    observable.kind = "from" =>
      /\ obs[s].isUnsubscribed
      /\ Delivered(s) =
           SelectSeq(FromDelivery(observable.values), LAMBDA d : d[1] \in obs[s].handlers)
      /\ \A i \in EventsOf(s, HandlerNames) :
           /\ obs[s].out[i].at <= Len(observable.sync)
           /\ calls[s][obs[s].out[i].at].sync

\* from(<<a, b>>) subscribed with all handlers, then unsubscribe() on the
\* handle: the delivery is still next a, next b, complete.
C13_Witness ==
  \E s \in Created :
    /\ observable.kind = "from"
    /\ observable.values = <<"a", "b">>
    /\ obs[s].handlers = HandlerNames
    /\ calls[s][Len(calls[s])].op = "unsubscribe"
    /\ Delivered(s) = <<<<"next", "a">>, <<"next", "b">>, <<"complete", NoArg>>>>

\* Positions of the next calls that found obs[s] Active.
LiveNextCalls(s) == {i \in CallsOf(s, {"next"}) : ActiveAt(s, i)}

\* C14: delivery equals the live prefix. For a subscription with an onNext
\* handler, the onNext invocations are, one for one and in the same order,
\* the next calls made while the observer was Active, each with the value
\* that call passed; a next call made after termination delivers nothing.
C14_DeliveryIsLivePrefix ==
  \A s \in Created :
    "next" \in obs[s].handlers =>
      /\ {obs[s].out[i].at : i \in EventsOf(s, {"next"})} = LiveNextCalls(s)
      /\ Cardinality(EventsOf(s, {"next"})) = Cardinality(LiveNextCalls(s))
      /\ \A i, j \in EventsOf(s, {"next"}) : i < j => obs[s].out[i].at < obs[s].out[j].at
      /\ \A i \in EventsOf(s, {"next"}) : obs[s].out[i].arg = calls[s][obs[s].out[i].at].arg

\* next b, next a, a terminal call, next b: delivered are b then a.
C14_Witness ==
  \E s \in Created :
    /\ "next" \in obs[s].handlers
    /\ Len(calls[s]) >= 3
    /\ calls[s][1] = Call(Signal("next", "b"), TRUE)
    /\ calls[s][2] = Call(Signal("next", "a"), FALSE)
    /\ calls[s][3].op \in TerminalOps
    /\ SelectSeq(Delivered(s), LAMBDA d : d[1] = "next") = <<<<"next", "b">>, <<"next", "a">>>>

\* C15: next() has no effect on subscription state. No teardown, onError or
\* onComplete invocation belongs to a next call, and an observer that received
\* only next calls is not unsubscribed; and a step that makes a next call on
\* an observer, Active or not, with or without handler, leaves isUnsubscribed,
\* the handler set and the teardown slot as they were, throws nothing, and
\* invokes at most onNext with the value passed.
C15_NextLeavesState ==
  /\ [](\A s \in Created :
          /\ \A i \in EventsOf(s, {"teardown", "error", "complete"}) :
               calls[s][obs[s].out[i].at].op # "next"
          /\ CallsOf(s, {"next"}) = DOMAIN calls[s] => ~obs[s].isUnsubscribed)
  /\ [][\A s \in Created :
          ( /\ Len(calls'[s]) = Len(calls[s]) + 1
            /\ calls'[s][Len(calls'[s])].op = "next" )
          => /\ obs'[s].isUnsubscribed = obs[s].isUnsubscribed
             /\ obs'[s].handlers = obs[s].handlers
             /\ obs'[s]._unsubscribe = obs[s]._unsubscribe
             /\ ~obs'[s].threw
             /\ \/ obs'[s].out = obs[s].out
                \/ obs'[s].out =
                     Append(obs[s].out,
                            Event("next", calls'[s][Len(calls'[s])].arg, Len(calls'[s])))]_vars

\* next was called, inside subscribe and after it, on an observer with
\* handlers and on one without, both with a teardown registered: both are
\* still Active and no teardown ran.
C15_Witness ==
  \E s, t \in Created :
    /\ obs[s].handlers = HandlerNames /\ obs[t].handlers = {}
    /\ calls[s] = <<Call(Signal("next", "a"), TRUE), Call(Signal("next", "b"), FALSE)>>
    /\ calls[t] = calls[s]
    /\ obs[s]._unsubscribe /\ obs[t]._unsubscribe
    /\ ~obs[s].isUnsubscribed /\ ~obs[t].isUnsubscribed
    /\ Delivered(s) = <<<<"next", "a">>, <<"next", "b">>>>
    /\ obs[t].out = <<>>

\* C16: ordering inside a terminal transition. A teardown invoked by an error
\* or complete call comes after the handler invoked by the same call; an error
\* or complete call made after subscribe returned on an Active observer with
\* a teardown registered invoked its handler (if present) and the teardown;
\* and the flag is set only after the handler: a next call made while the
\* terminal handler runs is still delivered.
C16_HandlerThenTeardown ==
  \A s \in Created :
    /\ \A i \in EventsOf(s, {"teardown"}), j \in EventsOf(s, {"error", "complete"}) :
         obs[s].out[i].at = obs[s].out[j].at => j < i
    /\ \A k \in CallsOf(s, {"error", "complete"}) :
         ( /\ ~calls[s][k].sync /\ ~calls[s][k].nested
           /\ ActiveAt(s, k)
           /\ obs[s]._unsubscribe )
         => /\ calls[s][k].op \in obs[s].handlers =>
                 \E j \in EventsOf(s, {calls[s][k].op}) : obs[s].out[j].at = k
            /\ \E i \in EventsOf(s, {"teardown"}) : obs[s].out[i].at = k
    /\ \A k \in CallsOf(s, {"next"}) :
         (calls[s][k].nested /\ "next" \in obs[s].handlers) =>
           \E j \in EventsOf(s, {"next"}) : obs[s].out[j].at = k

\* error() after subscribe returned, on an Active observer with an onError
\* handler and a teardown: onError ran, then the teardown.
C16_Witness ==
  \E s \in Created :
    /\ obs[s].isUnsubscribed
    /\ calls[s] = <<Call(Signal("error", "x"), FALSE)>>
    /\ obs[s].out = <<Event("error", "x", 1), Event("teardown", NoArg, 1)>>

\* C17: teardown registration order in subscribe. No teardown invocation
\* belongs to a call the producer made inside subscribe (the slot is empty
\* while the producer runs); after subscribe the slot is set exactly when the
\* producer returned a teardown, and stays so; nothing throws; and when the
\* producer returned nothing, no teardown is ever invoked and unsubscribe()
\* only sets the flag.
C17_RegisteredAfterProducer ==
  \A s \in Created :
    /\ \A i \in EventsOf(s, {"teardown"}) : ~calls[s][obs[s].out[i].at].sync
    /\ obs[s]._unsubscribe = observable.teardown
    /\ ~obs[s].threw
    /\ ~observable.teardown =>
         /\ Teardowns(s) = 0
         /\ CallsOf(s, {"unsubscribe"}) # {} => obs[s].isUnsubscribed

\* A producer that calls error() while it runs and returns a teardown: the
\* error is delivered inside subscribe, the slot is set, no teardown ran.
C17_Witness ==
  \E s \in Created :
    /\ observable.teardown
    /\ calls[s] = <<Call(Signal("error", "x"), TRUE)>>
    /\ obs[s]._unsubscribe
    /\ obs[s].out = <<Event("error", "x", 1)>>

\* Positions of the calls during which Observer.unsubscribe() ran: the
\* unsubscribe() calls on the handle and the error and complete calls that
\* found the observer Active.
UnsubscribeRuns(s) ==
  CallsOf(s, {"unsubscribe"}) \cup {i \in CallsOf(s, {"error", "complete"}) : ActiveAt(s, i)}

\* Those that ran after subscribe registered a teardown.
RunsAfterRegistration(s) ==
  {i \in UnsubscribeRuns(s) : ~calls[s][i].sync /\ obs[s]._unsubscribe}

\* C18: the teardown is invoked once by every run of Observer.unsubscribe()
\* that happens after the teardown was registered, and by nothing else: runs
\* inside the producer invoke no teardown and subscribe does not make up for
\* them.
C18_TeardownPerRunAfterRegistration ==
  \A s \in Created :
    /\ Teardowns(s) = Cardinality(RunsAfterRegistration(s))
    /\ {obs[s].out[i].at : i \in EventsOf(s, {"teardown"})} = RunsAfterRegistration(s)

\* error() inside the producer, which returned a teardown, then two
\* unsubscribe() calls on the handle: the teardown ran twice, once per
\* unsubscribe() call and not for the error.
C18_Witness ==
  \E s \in Created :
    /\ [i \in DOMAIN calls[s] |-> calls[s][i].op] = <<"error", "unsubscribe", "unsubscribe">>
    /\ calls[s][1].sync
    /\ obs[s]._unsubscribe
    /\ [i \in DOMAIN TeardownEvents(s) |-> TeardownEvents(s)[i].at] = <<2, 3>>

====
